---- MODULE Spec2Model ----
(***************************************************************************)
(* A model of the Cloud IoT Core DeviceManager client                      *)
(* (src/src/v1/device_manager_client.js): its resource-name path           *)
(* templates, and the dispatch of its service calls through the gax        *)
(* call wrapper (settings, retry, pagination, routing header).             *)
(*                                                                         *)
(* Strings that the code formats, parses or encodes are sequences of       *)
(* one-character strings, so that rendering, splitting and percent-        *)
(* encoding are computed character by character.                           *)
(***************************************************************************)
EXTENDS Integers, Sequences, FiniteSets, TLC

VARIABLES
    ptPc,        \* path codec: "start", "rendered", "damaged", "matched"
    ptIds,       \* path codec: the identifiers given to the render method
    ptPath,      \* path codec: the string under consideration, or TypeError
    ptMatcher,   \* path codec: the resource whose matchers were applied
    ptMatch,     \* path codec: what the matchers returned
    stub,           \* the service stub promise: "pending", "ready", "failed"
    retryCodesName, \* the retry-code list the service configuration gives the methods
    numPages,       \* the pages a list method of the service holds
    cPc,            \* the call: "idle", "waitStub", "inflight", "backoff", "nextPage", "done"
    cMethod,        \* the public method invoked
    cGiven,         \* the arguments as the caller gave them
    cOptions,       \* the options object after the method wrote to it
    cCallback,      \* whether the caller gave a callback
    cSettings,      \* the settings resolved for the call
    cMode,          \* "unary", "auto", "manual" or "stream"
    cArg,           \* the request of the current page or attempt
    cRetries,       \* the retrying caller's count of attempts
    cElapsed,       \* clock ticks since the retrying caller started
    cCollected,     \* resources collected (auto) or emitted as data (stream)
    lastReply,      \* the service's latest answer: "none", "OK" or a status code
    anyFailed,      \* whether the service answered any request with a status code
    cOutcome,       \* what the caller was handed
    sent,           \* the requests handed to the stub, in order
    served,         \* the pages the service answered with, in order
    resentAfter,    \* the status codes after which a request was sent again
    cCancelled,     \* whether the caller has cancelled the call
    sentAtCancel,   \* how many requests had been sent when the caller cancelled
    kHeap,       \* two calls: the options objects the caller owns, by reference
    kDefaults,   \* two calls: the client's construction-time default settings
    kClient,     \* two calls: the client's construction-time members
    kCalls,      \* two calls: each invocation's position, arguments and request sent
    oPc,         \* constructor: "idle", "entered", "resolved", "assigned", "scoped", "created"
    oGiven,      \* constructor: the options argument as the caller gave it
    oOpts,       \* constructor: opts
    oServicePath,\* constructor: the local servicePath
    oGrpc,       \* constructor: the options the GrpcClient (and its auth) was made with
    mCmd,        \* manager: the command run, "none" before
    mArg,        \* manager: the gateway id given to unbindDeviceFromGateway, or
                 \* opts.gatewayAuthMethod of createGateway
    mDevice,     \* manager: the variable device of unbindDeviceFromAllGateways
                 \* and of createGateway
    mPending,    \* manager: the requests in flight
    mIssued,     \* manager: the requests issued so far
    mService0,   \* manager: what the service held when the command started
    mBound,      \* manager: the gateways the device is bound to
    mDevicesLeft, \* manager: the devices the registry holds
    mRegistryPath, \* manager: whether the client in use has a method registryPath
    jClock,      \* createJwt: the clock Date.now() reads, in milliseconds
    jPayload,    \* createJwt: the payload handed to jwt.sign
    tCmd,        \* access-token script: the command run, "none" before
    tPending,    \* access-token script: the request awaited, "none" without
    tLog,        \* access-token script: the requests answered, with the answers
    tExit,       \* access-token script: the exit status, Absent while running
    pPolicy,     \* setupIotTopic: the IAM policy the topic has
    pPc,         \* setupIotTopic: "idle", or "read" between getPolicy and setPolicy
    pRead,       \* setupIotTopic: the policy getPolicy answered in the last run
    pWritten,    \* setupIotTopic: the policy the last run passed to setPolicy
    pRuns        \* setupIotTopic: the runs completed

ptVars == <<ptPc, ptIds, ptPath, ptMatcher, ptMatch>>

callVars == <<stub, retryCodesName, numPages, cPc, cMethod, cGiven, cOptions,
              cCallback, cSettings, cMode, cArg, cRetries, cElapsed,
              cCollected, lastReply, anyFailed, cOutcome, sent, served, resentAfter,
              cCancelled, sentAtCancel>>

cancelVars == <<cCancelled, sentAtCancel>>

concVars == <<kHeap, kDefaults, kClient, kCalls>>

ctorVars == <<oPc, oGiven, oOpts, oServicePath, oGrpc>>

mgrVars == <<mCmd, mArg, mDevice, mPending, mIssued, mService0, mBound,
             mDevicesLeft, mRegistryPath>>

jwtVars == <<jClock, jPayload>>

tokVars == <<tCmd, tPending, tLog, tExit>>

topicVars == <<pPolicy, pPc, pRead, pWritten, pRuns>>

\* The variables of the samples other than the manager commands.
sampleVars == <<jwtVars, tokVars, topicVars>>

\* The variables neither the path methods nor a single service call touch.
otherVars == <<concVars, ctorVars, mgrVars, sampleVars>>

\* The variables two invocations on a constructed client do not touch.
nonConcVars == <<ptVars, callVars, ctorVars, mgrVars, sampleVars>>

\* The variables the constructor does not touch.
nonCtorVars == <<ptVars, callVars, concVars, mgrVars, sampleVars>>

\* The variables the manager commands do not touch.
nonMgrVars == <<ptVars, callVars, concVars, ctorVars, sampleVars>>

\* The variables of the client and of the manager commands.
clientVars == <<ptVars, callVars, concVars, ctorVars, mgrVars>>

vars == <<ptPc, ptIds, ptPath, ptMatcher, ptMatch,
          stub, retryCodesName, numPages, cPc, cMethod, cGiven, cOptions,
          cCallback, cSettings, cMode, cArg, cRetries, cElapsed,
          cCollected, lastReply, anyFailed, cOutcome, sent, served, resentAfter,
          cCancelled, sentAtCancel, kHeap, kDefaults, kClient, kCalls,
          oPc, oGiven, oOpts, oServicePath, oGrpc,
          mCmd, mArg, mDevice, mPending, mIssued, mService0, mBound,
          mDevicesLeft, mRegistryPath, jClock, jPayload,
          tCmd, tPending, tLog, tExit,
          pPolicy, pPc, pRead, pWritten, pRuns>>

----------------------------------------------------------------------------
(* Bounds of the model.                                                    *)

\* Longest identifier drawn over IdAlphabet.
MaxIdLen == 1

\* Most pages a list method of the service holds.
MaxPages == 3

\* The total timeout of the default retry settings, in clock ticks.
TotalTimeout == 2

\* The maxRetries of the retry options a caller gives with a call.
MaxRetries == 2

\* Longest backoff delay, in clock ticks.
MaxDelay == 2

\* Latest instant of the clock createJwt reads, in milliseconds.
MaxClock == 2000

\* Most milliseconds that pass between two reads of the clock in createJwt.
MaxElapsed == 1

\* Most bindings of the IAM policy a topic starts with.
MaxBindings == 2

\* Most runs of setupIotTopic on one topic.
MaxRuns == 2

----------------------------------------------------------------------------
(* Character strings.                                                      *)

Slash == "/"

\* What an operation yields: a value, or the error it throws.
Ok(v) == [value |-> v]
Thrown(e) == [error |-> e]
IsError(r) == "error" \in DOMAIN r

TypeError == Thrown("TypeError")

\* JavaScript's undefined, where a string was expected.
Undefined == <<"undefined">>

W_projects == <<"p", "r", "o", "j", "e", "c", "t", "s">>
W_locations == <<"l", "o", "c", "a", "t", "i", "o", "n", "s">>
W_registries == <<"r", "e", "g", "i", "s", "t", "r", "i", "e", "s">>
W_devices == <<"d", "e", "v", "i", "c", "e", "s">>

\* The characters identifiers are drawn from: one ordinary character and
\* the path separator.
IdAlphabet == {"a", Slash}

RECURSIVE StringsUpTo(_)
StringsUpTo(n) ==
    IF n = 0 THEN {<<>>}
    ELSE LET shorter == StringsUpTo(n - 1)
         IN  shorter \cup {Append(s, c) : s \in shorter, c \in IdAlphabet}

\* The identifiers a caller may pass: every non-empty string over the
\* alphabet up to the bound, one that equals a literal of the templates, and
\* one with a separator inside.
Idents == (StringsUpTo(MaxIdLen) \ {<<>>}) \cup {W_locations, <<"b", Slash, "c">>}

HasSlash(s) == \E i \in 1..Len(s) : s[i] = Slash

\* String.prototype.split('/'): the segments between separators, empty
\* segments included.
RECURSIVE SplitFrom(_, _, _)
SplitFrom(s, i, cur) ==
    IF i > Len(s) THEN <<cur>>
    ELSE IF s[i] = Slash THEN <<cur>> \o SplitFrom(s, i + 1, <<>>)
    ELSE SplitFrom(s, i + 1, Append(cur, s[i]))

Split(s) == SplitFrom(s, 1, <<>>)

\* Array.prototype.join('/').
RECURSIVE Join(_)
Join(segs) ==
    IF Len(segs) = 0 THEN <<>>
    ELSE IF Len(segs) = 1 THEN segs[1]
    ELSE segs[1] \o <<Slash>> \o Join(Tail(segs))

----------------------------------------------------------------------------
(* Path templates (gax PathTemplate over the three template strings).      *)

Lit(w) == [kind |-> "lit", text |-> w]
Var(n) == [kind |-> "var", name |-> n]

devicePathTemplate ==
    <<Lit(W_projects), Var("project"), Lit(W_locations), Var("location"),
      Lit(W_registries), Var("registry"), Lit(W_devices), Var("device")>>

deviceRegistryPathTemplate ==
    <<Lit(W_projects), Var("project"), Lit(W_locations), Var("location"),
      Lit(W_registries), Var("registry")>>

locationPathTemplate ==
    <<Lit(W_projects), Var("project"), Lit(W_locations), Var("location")>>

VarNames(tmpl) == {tmpl[i].name : i \in {j \in 1..Len(tmpl) : tmpl[j].kind = "var"}}

\* PathTemplate.match: walk the template over the '/'-separated segments of
\* the path; a literal must equal its segment, a variable takes its segment;
\* the walk must consume the path exactly.  Yields the bindings, or throws.
RECURSIVE MatchFrom(_, _, _, _)
MatchFrom(tmpl, segs, i, acc) ==
    IF i > Len(tmpl)
    THEN IF Len(segs) = Len(tmpl) THEN Ok(acc) ELSE TypeError
    ELSE IF tmpl[i].kind = "lit"
         THEN IF i <= Len(segs) /\ segs[i] = tmpl[i].text
              THEN MatchFrom(tmpl, segs, i + 1, acc)
              ELSE TypeError
         ELSE MatchFrom(tmpl, segs, i + 1,
                        [n \in DOMAIN acc \cup {tmpl[i].name} |->
                            IF n = tmpl[i].name
                            THEN (IF i <= Len(segs) THEN segs[i] ELSE Undefined)
                            ELSE acc[n]])

Match(tmpl, path) == MatchFrom(tmpl, Split(path), 1, <<>>)

\* A binding value is itself parsed as a template: a leading separator is
\* dropped, and an empty segment is a syntax error.
ParseValue(v) ==
    LET segs == Split(v)
        rest == IF Len(segs) > 1 /\ segs[1] = <<>> THEN Tail(segs) ELSE segs
    IN  IF \E i \in 1..Len(rest) : rest[i] = <<>> THEN TypeError ELSE Ok(rest)

\* PathTemplate.render: every variable is replaced by the segments of its
\* binding, the result is formatted with '/', and it must match the
\* template it was rendered from.  Yields the path string, or throws.
RECURSIVE RenderSegs(_, _, _)
RenderSegs(tmpl, bindings, i) ==
    IF i > Len(tmpl) THEN Ok(<<>>)
    ELSE LET rest == RenderSegs(tmpl, bindings, i + 1)
         IN  IF IsError(rest) THEN rest
             ELSE IF tmpl[i].kind = "lit" THEN Ok(<<tmpl[i].text>> \o rest.value)
             ELSE IF tmpl[i].name \notin DOMAIN bindings THEN TypeError
             ELSE LET v == ParseValue(bindings[tmpl[i].name])
                  IN  IF IsError(v) THEN v ELSE Ok(v.value \o rest.value)

Render(tmpl, bindings) ==
    LET segs == RenderSegs(tmpl, bindings, 1)
    IN  IF IsError(segs) THEN segs
        ELSE IF IsError(Match(tmpl, Join(segs.value))) THEN TypeError
        ELSE Ok(Join(segs.value))

----------------------------------------------------------------------------
(* The client's path methods.                                              *)

\* The component a matcher returns: match(name).<component>, or the error
\* match threw.
Component(m, name) == IF IsError(m) THEN m ELSE Ok(m.value[name])

\* devicePath binding two identifiers to each other's variable.
devicePath_swapped(project, location, registry, device) ==
    Render(devicePathTemplate,
           [project |-> project, location |-> registry,
            registry |-> location, device |-> device])

devicePath(project, location, registry, device) ==
    Render(devicePathTemplate,
           [project |-> project, location |-> location,
            registry |-> registry, device |-> device])

deviceRegistryPath(project, location, registry) ==
    Render(deviceRegistryPathTemplate,
           [project |-> project, location |-> location, registry |-> registry])

\* locationPath binding both variables to the project.
locationPath_projectTwice(project, location) ==
    Render(locationPathTemplate, [project |-> project, location |-> project])

locationPath(project, location) ==
    Render(locationPathTemplate, [project |-> project, location |-> location])

matchProjectFromDeviceName(deviceName) ==
    Component(Match(devicePathTemplate, deviceName), "project")

matchLocationFromDeviceName(deviceName) ==
    Component(Match(devicePathTemplate, deviceName), "location")

matchRegistryFromDeviceName(deviceName) ==
    Component(Match(devicePathTemplate, deviceName), "registry")

matchDeviceFromDeviceName(deviceName) ==
    Component(Match(devicePathTemplate, deviceName), "device")

\* The registry matcher parsing with the device template.
matchProjectFromDeviceRegistryName_deviceTemplate(deviceRegistryName) ==
    Component(Match(devicePathTemplate, deviceRegistryName), "project")

matchProjectFromDeviceRegistryName(deviceRegistryName) ==
    Component(Match(deviceRegistryPathTemplate, deviceRegistryName), "project")

matchLocationFromDeviceRegistryName(deviceRegistryName) ==
    Component(Match(deviceRegistryPathTemplate, deviceRegistryName), "location")

matchRegistryFromDeviceRegistryName(deviceRegistryName) ==
    Component(Match(deviceRegistryPathTemplate, deviceRegistryName), "registry")

matchProjectFromLocationName(locationName) ==
    Component(Match(locationPathTemplate, locationName), "project")

matchLocationFromLocationName(locationName) ==
    Component(Match(locationPathTemplate, locationName), "location")

----------------------------------------------------------------------------
(* The path codec as a state machine: a caller renders a name from         *)
(* identifiers, possibly hands on a damaged name, and parses it.           *)

NoIds == <<>>
NoMatch == <<>>

PtInit ==
    /\ ptPc = "start"
    /\ ptIds = NoIds
    /\ ptPath = Ok(<<>>)
    /\ ptMatcher = "none"
    /\ ptMatch = NoMatch

CallDevicePath ==
    /\ ptPc = "start"
    /\ \E p \in Idents, l \in Idents, r \in Idents, d \in Idents :
          /\ ptIds' = <<p, l, r, d>>
          /\ ptPath' = devicePath(p, l, r, d)
    /\ ptPc' = "rendered"
    /\ UNCHANGED <<ptMatcher, ptMatch>>
    /\ UNCHANGED <<callVars, otherVars>>

CallDeviceRegistryPath ==
    /\ ptPc = "start"
    /\ \E p \in Idents, l \in Idents, r \in Idents :
          /\ ptIds' = <<p, l, r>>
          /\ ptPath' = deviceRegistryPath(p, l, r)
    /\ ptPc' = "rendered"
    /\ UNCHANGED <<ptMatcher, ptMatch>>
    /\ UNCHANGED <<callVars, otherVars>>

CallLocationPath ==
    /\ ptPc = "start"
    /\ \E p \in Idents, l \in Idents :
          /\ ptIds' = <<p, l>>
          /\ ptPath' = locationPath(p, l)
    /\ ptPc' = "rendered"
    /\ UNCHANGED <<ptMatcher, ptMatch>>
    /\ UNCHANGED <<callVars, otherVars>>

\* The names a caller may hand to a matcher instead of a rendered one: the
\* name without its last segment, with one more segment, with a trailing
\* separator, or with a misspelt first literal.
Damaged(path) ==
    LET segs == Split(path)
    IN  { Join(SubSeq(segs, 1, Len(segs) - 1)),
          path \o <<Slash, "a">>,
          path \o <<Slash>>,
          <<"x">> \o Tail(path) }

DamagePath ==
    /\ ptPc = "rendered"
    /\ ~IsError(ptPath)
    /\ \E s \in Damaged(ptPath.value) : ptPath' = Ok(s)
    /\ ptIds' = NoIds
    /\ ptPc' = "damaged"
    /\ UNCHANGED <<ptMatcher, ptMatch>>
    /\ UNCHANGED <<callVars, otherVars>>

CallMatchDeviceName ==
    /\ ptPc \in {"rendered", "damaged"}
    /\ ~IsError(ptPath)
    /\ ptMatch' = [project |-> matchProjectFromDeviceName(ptPath.value),
                   location |-> matchLocationFromDeviceName(ptPath.value),
                   registry |-> matchRegistryFromDeviceName(ptPath.value),
                   device |-> matchDeviceFromDeviceName(ptPath.value)]
    /\ ptMatcher' = "device"
    /\ ptPc' = "matched"
    /\ UNCHANGED <<ptIds, ptPath>>
    /\ UNCHANGED <<callVars, otherVars>>

CallMatchDeviceRegistryName ==
    /\ ptPc \in {"rendered", "damaged"}
    /\ ~IsError(ptPath)
    /\ ptMatch' = [project |-> matchProjectFromDeviceRegistryName(ptPath.value),
                   location |-> matchLocationFromDeviceRegistryName(ptPath.value),
                   registry |-> matchRegistryFromDeviceRegistryName(ptPath.value)]
    /\ ptMatcher' = "deviceRegistry"
    /\ ptPc' = "matched"
    /\ UNCHANGED <<ptIds, ptPath>>
    /\ UNCHANGED <<callVars, otherVars>>

CallMatchLocationName ==
    /\ ptPc \in {"rendered", "damaged"}
    /\ ~IsError(ptPath)
    /\ ptMatch' = [project |-> matchProjectFromLocationName(ptPath.value),
                   location |-> matchLocationFromLocationName(ptPath.value)]
    /\ ptMatcher' = "location"
    /\ ptPc' = "matched"
    /\ UNCHANGED <<ptIds, ptPath>>
    /\ UNCHANGED <<callVars, otherVars>>

PtNext ==
    \/ CallDevicePath
    \/ CallDeviceRegistryPath
    \/ CallLocationPath
    \/ DamagePath
    \/ CallMatchDeviceName
    \/ CallMatchDeviceRegistryName
    \/ CallMatchLocationName

----------------------------------------------------------------------------
(* Service calls: the values the methods handle.                           *)

\* An argument that was not given (JavaScript's undefined).
Absent == [absent |-> TRUE]

IsAbsent(v) == "absent" \in DOMAIN v

\* The value of an object's property, or Absent when it has none.
Get(obj, k) == IF k \in DOMAIN obj THEN obj[k] ELSE Absent

\* A variant that leaves the object as it is.
With_unset(obj, k, v) == obj

\* The object with property k set to v.
With(obj, k, v) ==
    [f \in DOMAIN obj \cup {k} |-> IF f = k THEN v ELSE obj[f]]

EmptyObject == [f \in {} |-> Absent]

\* The methods of the service stub, as listed in the constructor.
deviceManagerStubMethods ==
    <<"createDeviceRegistry", "getDeviceRegistry", "updateDeviceRegistry",
      "deleteDeviceRegistry", "listDeviceRegistries", "createDevice",
      "getDevice", "updateDevice", "deleteDevice", "listDevices",
      "modifyCloudToDeviceConfig", "listDeviceConfigVersions",
      "listDeviceStates", "setIamPolicy", "getIamPolicy",
      "testIamPermissions", "sendCommandToDevice", "bindDeviceToGateway",
      "unbindDeviceFromGateway">>

StubMethodSet == {deviceManagerStubMethods[i] : i \in DOMAIN deviceManagerStubMethods}

StreamMethods == {"listDeviceRegistriesStream", "listDevicesStream"}

\* The public service-call methods of the client.
ServiceMethods == StubMethodSet \cup StreamMethods

\* The page descriptors registered in the constructor.
PageDescriptor(requestPageTokenField, responsePageTokenField, resourceField) ==
    [requestPageTokenField |-> requestPageTokenField,
     responsePageTokenField |-> responsePageTokenField,
     resourceField |-> resourceField]

\* listDevices registered with the request's token field as the response's.
descriptorsPage_devicesTokenField ==
    [listDeviceRegistries |->
        PageDescriptor("pageToken", "nextPageToken", "deviceRegistries"),
     listDevices |->
        PageDescriptor("pageToken", "pageToken", "devices")]

\* listDeviceRegistries registered with the response's token field as the
\* request's.
descriptorsPage_registriesRequestField ==
    [listDeviceRegistries |->
        PageDescriptor("nextPageToken", "nextPageToken", "deviceRegistries"),
     listDevices |->
        PageDescriptor("pageToken", "nextPageToken", "devices")]

descriptorsPage ==
    [listDeviceRegistries |->
        PageDescriptor("pageToken", "nextPageToken", "deviceRegistries"),
     listDevices |->
        PageDescriptor("pageToken", "nextPageToken", "devices")]

\* The inner API call a public method hands its arguments to.
InnerCallOf(method) ==
    CASE method = "listDeviceRegistriesStream" -> "listDeviceRegistries"
      [] method = "listDevicesStream" -> "listDevices"
      [] OTHER -> method

----------------------------------------------------------------------------
(* The routing header.                                                     *)

\* querystring.escape on one character: the characters of the model's
\* strings are letters, digits and '-', which are left alone, and '/',
\* which is percent-encoded.
EscapeChar_asIs(c) == <<c>>

EscapeChar(c) == IF c = Slash THEN <<"%", "2", "F">> ELSE <<c>>

RECURSIVE Escape(_)
Escape(str) ==
    IF Len(str) = 0 THEN <<>> ELSE EscapeChar(Head(str)) \o Escape(Tail(str))

\* gax.routingHeader.fromParams({key: value}) = querystring.stringify: the
\* key, '=', and the escaped value; an undefined value gives the empty
\* string.  The key is kept as one token.
fromParams(key, value) ==
    <<key, "=">> \o (IF IsAbsent(value) THEN <<>> ELSE Escape(value.str))

\* A string as a property value.
Str(chars) == [str |-> chars]

\* The header parameter a method derives from its request, as
\* <<key, path of the request field>>, or <<>> when the method sets none.
RoutingParam(method) ==
    CASE method \in {"createDeviceRegistry", "listDeviceRegistries",
                     "listDeviceRegistriesStream", "createDevice",
                     "listDevices", "bindDeviceToGateway",
                     "unbindDeviceFromGateway"} -> <<"parent", <<"parent">>>>
      [] method \in {"getDeviceRegistry", "deleteDeviceRegistry", "getDevice",
                     "deleteDevice", "modifyCloudToDeviceConfig",
                     "listDeviceConfigVersions", "listDeviceStates",
                     "sendCommandToDevice"} -> <<"name", <<"name">>>>
      [] method \in {"setIamPolicy", "getIamPolicy",
                     "testIamPermissions"} -> <<"resource", <<"resource">>>>
      [] method = "updateDeviceRegistry" ->
            <<"device_registry.name", <<"deviceRegistry", "name">>>>
      [] method = "updateDevice" -> <<"device.name", <<"device", "name">>>>
      [] method = "listDevicesStream" -> <<>>

\* request.a.b...: reading a property of undefined throws a TypeError,
\* reading a property an object lacks gives undefined.
RECURSIVE ReadPath(_, _)
ReadPath(obj, path) ==
    IF Len(path) = 0 THEN Ok(obj)
    ELSE IF IsAbsent(obj) THEN TypeError
    ELSE ReadPath(Get(obj, Head(path)), Tail(path))

\* Whether a method starts with  request = request || {}.
DefaultsRequest(method) == method \notin StreamMethods

\* The part of a public method before it hands over to the inner API call:
\* the callback given in place of the options, the defaulted request and
\* options, and the routing header written into the options' headers.
\* Yields the arguments handed over, or throws.
PrepareCall(method, request, options, callback) ==
    LET optIsCallback == method \notin StreamMethods
                            /\ "function" \in DOMAIN options /\ IsAbsent(callback)
        cb == IF optIsCallback THEN options
              ELSE IF method \in StreamMethods THEN Absent ELSE callback
        opts0 == IF optIsCallback \/ IsAbsent(options) THEN EmptyObject ELSE options
        req == IF DefaultsRequest(method) /\ IsAbsent(request)
               THEN EmptyObject ELSE request
        param == RoutingParam(method)
    IN  IF Len(param) = 0
        THEN Ok([request |-> req, options |-> opts0, callback |-> cb])
        ELSE LET value == ReadPath(req, param[2])
                 otherArgs0 == IF IsAbsent(Get(opts0, "otherArgs"))
                               THEN EmptyObject ELSE opts0.otherArgs
                 headers0 == IF IsAbsent(Get(otherArgs0, "headers"))
                             THEN EmptyObject ELSE otherArgs0.headers
             IN  IF IsError(value) THEN value
                 ELSE Ok([request |-> req,
                          options |->
                             With(opts0, "otherArgs",
                                With(otherArgs0, "headers",
                                   With(headers0, "x-goog-request-params",
                                        fromParams(param[1], value.value)))),
                          callback |-> cb])

----------------------------------------------------------------------------
(* Call settings and the retry policy.                                     *)

\* The status codes a failed request carries in the model.
StatusCodes == {"UNAVAILABLE", "DEADLINE_EXCEEDED", "NOT_FOUND"}

\* backoffSettings.maxRetries when it is not set.
Unset == -1

\* Both lists holding DEADLINE_EXCEEDED.
RetryCodes_deadlineInBoth(listName) ==
    CASE listName = "idempotent" -> {"DEADLINE_EXCEEDED", "UNAVAILABLE"}
      [] listName = "non_idempotent" -> {"DEADLINE_EXCEEDED"}

\* The retry-code lists of the service configuration: the status codes
\* that make a call of that class be sent again.
RetryCodes(listName) ==
    CASE listName = "idempotent" -> {"DEADLINE_EXCEEDED", "UNAVAILABLE"}
      [] listName = "non_idempotent" -> {}

RetryCodesNames == {"idempotent", "non_idempotent"}

\* defaults[methodName] as constructSettings builds it from the service
\* configuration: the retry codes of the method's list, a total timeout as
\* the limit of the retries, and auto-pagination on.
DefaultSettings(listName) ==
    [retry |-> [retryCodes |-> RetryCodes(listName),
                maxRetries |-> Unset,
                totalTimeout |-> TotalTimeout],
     autoPaginate |-> TRUE]

\* CallSettings.merge: a retry given with the call replaces the default
\* one, autoPaginate: false turns auto-pagination off, and the call's
\* otherArgs (the headers among them) are taken over.
MergeSettings(settings, options) ==
    [retry |-> IF "retry" \in DOMAIN options THEN options.retry ELSE settings.retry,
     autoPaginate |-> IF "autoPaginate" \in DOMAIN options /\ ~options.autoPaginate
                      THEN FALSE ELSE settings.autoPaginate,
     headers |-> IF "otherArgs" \in DOMAIN options
                    /\ "headers" \in DOMAIN options.otherArgs
                 THEN options.otherArgs.headers ELSE EmptyObject]

\* createApiCall wraps the stub function in the retrying caller only when
\* the settings hold a non-empty list of retry codes.
IsRetryable(settings) == settings.retry.retryCodes # {}

\* The metadata built for a request: the client header of the constructor
\* and the headers of the call.
BuildMetadata(headers) ==
    LET more == DOMAIN headers \ {"x-goog-api-client"}
    IN  [k \in {"x-goog-api-client"} \cup more |->
            IF k \in more THEN headers[k] ELSE <<"clientHeader">>]

\* How the inner API call runs: page by page for the methods with a page
\* descriptor (collecting all pages, or one page per call), as one request
\* otherwise.
ModeOf(method, settings) ==
    IF method \in StreamMethods THEN "stream"
    ELSE IF method \notin DOMAIN descriptorsPage THEN "unary"
    ELSE IF settings.autoPaginate THEN "auto" ELSE "manual"

\* A variant in which every inner API call invokes the first stub method.
StubMethodOf_first(methodName) == deviceManagerStubMethods[1]

\* The stub method an inner API call invokes.
StubMethodOf(methodName) == methodName

----------------------------------------------------------------------------
(* The service behind the stub: a list method serves numPages pages.       *)

\* A page token (0 is the empty token) and a list of resources, as
\* property values.
Tok(n) == [tok |-> n]
Items(seq) == [items |-> seq]

\* The items of page i: page i holds i % 3 items, numbered from 10 * i.
PageItems(i) == [j \in 1..(i % 3) |-> 10 * i + j]

\* The page a request asks for: the first one without a page token.
PageAsked(request) ==
    LET t == Get(request, "pageToken")
    IN  IF IsAbsent(t) THEN 1 ELSE IF t.tok = 0 THEN 1 ELSE t.tok

\* The response to a list request: the items of the page under the
\* method's result field and the token of the next page, 0 (the empty
\* token) on the last page.
ListResponse(methodName, i, pages) ==
    LET token == Tok(IF i < pages THEN i + 1 ELSE 0)
    IN  IF methodName = "listDeviceRegistries"
        THEN [deviceRegistries |-> Items(PageItems(i)), nextPageToken |-> token]
        ELSE [devices |-> Items(PageItems(i)), nextPageToken |-> token]

UnaryResponse(methodName) == [answerTo |-> methodName]

\* The resources, and never a request for a next page.
ParsedPage_noNext(descriptor, request, response) ==
    [resources |-> Get(response, descriptor.resourceField), next |-> Absent]

\* What the paged caller makes of a response: the resources, and the
\* request for the next page (the request with the page token replaced)
\* when the response carries a non-empty token.
ParsedPage(descriptor, request, response) ==
    LET pageToken == Get(response, descriptor.responsePageTokenField)
    IN  [resources |-> Get(response, descriptor.resourceField),
         next |-> IF ~IsAbsent(pageToken) /\ pageToken.tok # 0
                  THEN With(request, descriptor.requestPageTokenField, pageToken)
                  ELSE Absent]

----------------------------------------------------------------------------
(* The arguments callers give.                                             *)

us_central1 == <<"u", "s", "-", "c", "e", "n", "t", "r", "a", "l", "1">>

\* projects/p0/locations/us-central1/registries/r0
RegistryName0 ==
    deviceRegistryPath(<<"p", "0">>, us_central1, <<"r", "0">>).value

ResourceNames == {RegistryName0, <<"n", "1">>}

\* A request of the method that names the resource n.
RequestFor(method, n) ==
    CASE method \in {"bindDeviceToGateway", "unbindDeviceFromGateway"} ->
            [parent |-> Str(n), gatewayId |-> Str(<<"g", "w", "1">>),
             deviceId |-> Str(<<"d", "e", "v", "1">>)]
      [] method = "updateDeviceRegistry" -> [deviceRegistry |-> [name |-> Str(n)]]
      [] method = "updateDevice" -> [device |-> [name |-> Str(n)]]
      [] method = "listDevicesStream" -> [parent |-> Str(n)]
      [] OTHER -> [f \in {RoutingParam(method)[1]} |-> Str(n)]

Requests(method) ==
    {Absent, EmptyObject} \cup {RequestFor(method, n) : n \in ResourceNames}

Function == [function |-> "callback"]

\* The retry options a caller gives with a call.
RetryOverride ==
    [retryCodes |-> {"UNAVAILABLE"}, maxRetries |-> MaxRetries, totalTimeout |-> 0]

\* The (options, callback) pairs callers give.
OptionsAndCallback ==
    { <<Absent, Absent>>,
      <<Function, Absent>>,
      <<[autoPaginate |-> FALSE], Absent>>,
      <<[autoPaginate |-> TRUE], Absent>>,
      <<[retry |-> RetryOverride], Absent>>,
      <<[retry |-> RetryOverride], Function>> }

----------------------------------------------------------------------------
(* The service calls as a state machine.                                   *)

NoError == [code |-> "none", origin |-> "none"]
StubError == [code |-> "STUB_CREATION", origin |-> "stub"]
ServiceError(code) == [code |-> code, origin |-> "service"]
\* The error the retrying caller makes up when the retries are used up.
RetriesExceeded == [code |-> "DEADLINE_EXCEEDED", origin |-> "gax"]
ThrownTypeError == [code |-> "TypeError", origin |-> "client"]

NoOutcome == [how |-> "none"]

CallInit ==
    /\ stub = "pending"
    /\ retryCodesName \in RetryCodesNames
    /\ numPages \in 1..MaxPages
    /\ cPc = "idle"
    /\ cMethod = "none"
    /\ cGiven = Absent
    /\ cOptions = Absent
    /\ cCallback = FALSE
    /\ cSettings = Absent
    /\ cMode = "none"
    /\ cArg = Absent
    /\ cRetries = 0
    /\ cElapsed = 0
    /\ cCollected = <<>>
    /\ lastReply = "none"
    /\ anyFailed = FALSE
    /\ cOutcome = NoOutcome
    /\ sent = <<>>
    /\ served = <<>>
    /\ resentAfter = {}
    /\ cCancelled = FALSE
    /\ sentAtCancel = 0

\* createStub's promise settles: the stub is there, or its creation failed.
StubSettles ==
    /\ stub = "pending"
    /\ stub' \in {"ready", "failed"}
    /\ UNCHANGED <<ptVars, otherVars, cancelVars>>
    /\ UNCHANGED <<retryCodesName, numPages, cPc, cMethod, cGiven, cOptions,
                   cCallback, cSettings, cMode, cArg, cRetries, cElapsed,
                   cCollected, lastReply, anyFailed, cOutcome, sent, served, resentAfter>>

\* How a result or an error reaches the caller of the current call.
Channel == IF cMode = "stream" THEN "stream"
           ELSE IF cCallback THEN "callback" ELSE "promise"

Failure(how, err) == [how |-> how, ok |-> FALSE, error |-> err]
Success(how, result) == [how |-> how, ok |-> TRUE, result |-> result]

\* The error a cancelled call is completed with.
CancelledError == [code |-> "CANCELLED", origin |-> "gax"]

\* What the caller holds once the call completes with an outcome: a promise
\* that the cancellation has rejected stays rejected; a callback is called
\* again.
Delivered(outcome) ==
    IF cCancelled /\ ~cCallback THEN cOutcome ELSE outcome

\* A public method is called: it prepares the arguments (or throws) and
\* hands them to the inner API call, which resolves the settings and waits
\* for the stub.
StartCall(method, request, options, callback) ==
    LET prep == PrepareCall(method, request, options, callback)
    IN  /\ cMethod' = method
        /\ IF IsError(prep)
           THEN /\ cPc' = "done"
                /\ cOutcome' = Failure("thrown", ThrownTypeError)
                /\ UNCHANGED <<cOptions, cCallback, cSettings, cMode, cArg>>
           ELSE LET settings ==
                       MergeSettings(DefaultSettings(retryCodesName),
                          IF method \in StreamMethods
                          THEN With(prep.value.options, "autoPaginate", FALSE)
                          ELSE prep.value.options)
                IN  /\ cPc' = "waitStub"
                    /\ cOutcome' = NoOutcome
                    /\ cOptions' = prep.value.options
                    /\ cCallback' = ~IsAbsent(prep.value.callback)
                    /\ cSettings' = settings
                    /\ cMode' = ModeOf(method, settings)
                    /\ cArg' = IF IsAbsent(prep.value.request)
                               THEN EmptyObject ELSE prep.value.request
        /\ cRetries' = 0
        /\ cElapsed' = 0

Invoke ==
    /\ cPc = "idle"
    /\ \E method \in ServiceMethods :
       \E request \in Requests(method) :
       \E oc \in OptionsAndCallback :
          /\ method \in StreamMethods => IsAbsent(oc[2]) /\ "function" \notin DOMAIN oc[1]
          /\ cGiven' = [request |-> request, options |-> oc[1], callback |-> oc[2]]
          /\ StartCall(method, request, oc[1], oc[2])
    /\ UNCHANGED <<ptVars, otherVars, cancelVars>>
    /\ UNCHANGED <<stub, retryCodesName, numPages, cCollected, lastReply, anyFailed, sent,
                   served, resentAfter>>

\* The stub function is called with the current request: a stub whose
\* creation failed throws, which reaches the caller except from the
\* collector of all pages, whose calls run outside the call's promise chain.
Attempt(arg) ==
    IF stub = "failed"
    THEN /\ cPc' = "done"
         /\ cOutcome' = IF cMode = "auto" THEN Failure("uncaught", StubError)
                        ELSE Failure(Channel, StubError)
         /\ UNCHANGED sent
    ELSE /\ cPc' = "inflight"
         /\ sent' = Append(sent, [method |-> StubMethodOf(InnerCallOf(cMethod)),
                                  request |-> arg,
                                  metadata |-> BuildMetadata(cSettings.headers)])
         /\ UNCHANGED cOutcome

\* The stub promise has settled: the call (its first page) goes out.
Dispatch ==
    /\ cPc = "waitStub"
    /\ stub # "pending"
    /\ Attempt(cArg)
    /\ cRetries' = 1
    /\ UNCHANGED <<ptVars, otherVars, cancelVars>>
    /\ UNCHANGED <<stub, retryCodesName, numPages, cMethod, cGiven, cOptions,
                   cCallback, cSettings, cMode, cArg, cElapsed, cCollected,
                   lastReply, anyFailed, served, resentAfter>>

\* The service answers the request in flight with a response.
ReplyOk ==
    /\ cPc = "inflight"
    /\ LET inner == InnerCallOf(cMethod)
       IN  IF cMode = "unary"
           THEN /\ cPc' = "done"
                /\ cOutcome' = Success(Channel, [response |-> UnaryResponse(inner)])
                /\ UNCHANGED <<cArg, cCollected, served>>
           ELSE LET page == PageAsked(cArg)
                    response == ListResponse(inner, page, numPages)
                    parsed == ParsedPage(descriptorsPage[inner], cArg, response)
                    all == cCollected \o parsed.resources.items
                IN  /\ served' = Append(served, page)
                    /\ IF cMode = "manual"
                       THEN /\ cPc' = "done"
                            /\ cOutcome' = Success(Channel,
                                              [resources |-> parsed.resources,
                                               next |-> parsed.next,
                                               response |-> response])
                            /\ UNCHANGED <<cArg, cCollected>>
                       ELSE /\ cCollected' = all
                            /\ IF IsAbsent(parsed.next)
                               THEN /\ cPc' = "done"
                                    /\ cOutcome' = Delivered(Success(Channel,
                                                      [resources |-> Items(all)]))
                                    /\ UNCHANGED cArg
                               ELSE /\ cPc' = "nextPage"
                                    /\ cArg' = parsed.next
                                    /\ UNCHANGED cOutcome
    /\ UNCHANGED <<ptVars, otherVars, cancelVars>>
    /\ lastReply' = "OK"
    /\ UNCHANGED anyFailed
    /\ UNCHANGED <<stub, retryCodesName, numPages, cMethod, cGiven, cOptions,
                   cCallback, cSettings, cMode, cRetries, cElapsed, sent,
                   resentAfter>>

\* The request in flight fails with a status: the retrying caller backs
\* off when the status is one of its retry codes; otherwise the error
\* goes to the caller.
ReplyError ==
    /\ cPc = "inflight"
    /\ \E code \in StatusCodes :
          /\ lastReply' = code
          /\ anyFailed' = TRUE
          /\ IF IsRetryable(cSettings) /\ code \in cSettings.retry.retryCodes
             THEN /\ cPc' = "backoff"
                  /\ UNCHANGED cOutcome
             ELSE /\ cPc' = "done"
                  /\ cOutcome' = Delivered(Failure(Channel, ServiceError(code)))
    /\ UNCHANGED <<ptVars, otherVars, cancelVars>>
    /\ UNCHANGED <<stub, retryCodesName, numPages, cMethod, cGiven, cOptions,
                   cCallback, cSettings, cMode, cArg, cRetries, cElapsed,
                   cCollected, sent, served, resentAfter>>

\* One attempt more than the limit before giving up.
GivesUp_oneLate(retry, now, retries) ==
    \/ retry.totalTimeout # 0 /\ now > retry.totalTimeout
    \/ retry.maxRetries # Unset /\ retries > retry.maxRetries

\* Whether the retrying caller gives up before an attempt: the total
\* timeout has passed, or the attempts made have reached maxRetries.
GivesUp(retry, now, retries) ==
    \/ retry.totalTimeout # 0 /\ now >= retry.totalTimeout
    \/ retry.maxRetries # Unset /\ retries >= retry.maxRetries

\* The backoff delay is over: the retrying caller gives up, or sends the
\* request again.
BackoffElapses ==
    /\ cPc = "backoff"
    /\ \E d \in 1..MaxDelay :
          LET retry == cSettings.retry
              now == IF retry.totalTimeout = 0 THEN 0 ELSE cElapsed + d
          IN  /\ retry.totalTimeout = 0 => d = 1
              /\ cElapsed' = now
              /\ IF GivesUp(retry, now, cRetries)
                 THEN /\ cPc' = "done"
                      /\ cOutcome' = Delivered(Failure(Channel, RetriesExceeded))
                      /\ UNCHANGED <<cRetries, sent, resentAfter>>
                 ELSE /\ Attempt(cArg)
                      /\ cRetries' = cRetries + 1
                      /\ resentAfter' = resentAfter \cup {lastReply}
    /\ UNCHANGED <<ptVars, otherVars, cancelVars>>
    /\ UNCHANGED <<stub, retryCodesName, numPages, cMethod, cGiven, cOptions,
                   cCallback, cSettings, cMode, cArg, cCollected, lastReply, anyFailed,
                   served>>

\* The collector (or the stream) asks for the next page: a new call of
\* the inner API call with the next request.
FetchNextPage ==
    /\ cPc = "nextPage"
    /\ Attempt(cArg)
    /\ cRetries' = 1
    /\ cElapsed' = 0
    /\ UNCHANGED <<ptVars, otherVars, cancelVars>>
    /\ UNCHANGED <<stub, retryCodesName, numPages, cMethod, cGiven, cOptions,
                   cCallback, cSettings, cMode, cArg, cCollected, lastReply, anyFailed,
                   served, resentAfter>>

\* The caller of a one-page list call calls the method again with the next
\* request it was handed, and the same options object, while there is one.
CallerRequestsNextPage ==
    /\ cPc = "done"
    /\ cMode = "manual"
    /\ cOutcome.ok
    /\ ~IsAbsent(cOutcome.result.next)
    /\ StartCall(cMethod, cOutcome.result.next, cOptions,
                 IF cCallback THEN Function ELSE Absent)
    /\ UNCHANGED <<ptVars, otherVars, cancelVars>>
    /\ UNCHANGED <<stub, retryCodesName, numPages, cGiven, cCollected, lastReply, anyFailed,
                   sent, served, resentAfter>>

\* The caller cancels a call that collects all pages while it is in
\* progress: the call completes with the cancellation error at once.  The
\* collector's requests were not started through the call's canceller, so
\* none of them is aborted and the collector goes on.
Cancel ==
    /\ cMode = "auto"
    /\ cPc \in {"waitStub", "inflight", "backoff", "nextPage"}
    /\ stub = "ready"
    /\ ~cCancelled
    /\ cCancelled' = TRUE
    /\ sentAtCancel' = Len(sent)
    /\ cOutcome' = Failure(Channel, CancelledError)
    /\ UNCHANGED <<ptVars, otherVars>>
    /\ UNCHANGED <<stub, retryCodesName, numPages, cPc, cMethod, cGiven,
                   cOptions, cCallback, cSettings, cMode, cArg, cRetries,
                   cElapsed, cCollected, lastReply, anyFailed, sent, served,
                   resentAfter>>

Next ==
    \/ StubSettles
    \/ Invoke
    \/ Dispatch
    \/ ReplyOk
    \/ ReplyError
    \/ BackoffElapses
    \/ FetchNextPage
    \/ CallerRequestsNextPage
    \/ Cancel

----------------------------------------------------------------------------
(* Two invocations on one client.  The options object of a call is the     *)
(* caller's: a method writes the routing header into it, and the settings  *)
(* merged for the call hold its headers object itself, not a copy.         *)

Calls == {1, 2}

\* The options objects a caller owns and may give to one call or to both.
OptionObjects == {1, 2}

\* What the caller put into an options object.
CallerOptions ==
    {EmptyObject, [retry |-> RetryOverride], [timeout |-> "perCall"]}

\* The methods the two invocations are of.
KMethods == {"createDeviceRegistry", "getDevice"}

\* The members the constructor sets on the client.
ClientMembers ==
    [_innerApiCalls |-> StubMethodSet,
     _descriptors |-> descriptorsPage,
     _pathTemplates |-> {"devicePathTemplate", "deviceRegistryPathTemplate",
                         "locationPathTemplate"},
     auth |-> "gaxGrpc.auth"]

\* defaults[methodName]: the settings and the timeout of the service
\* configuration.
MethodDefaults(listName) ==
    [settings |-> DefaultSettings(listName), timeout |-> "default"]

\* CallSettings.merge, the timeout: the call's when it gives one.
MergeTimeout(timeout, options) ==
    IF "timeout" \in DOMAIN options THEN options.timeout ELSE timeout

\* The defaults made the settings of the call itself.
DefaultsAfterCall_keepsOverride(defaults, options) ==
    [settings |-> [retry |-> MergeSettings(defaults.settings, options).retry,
                   autoPaginate |-> defaults.settings.autoPaginate],
     timeout |-> MergeTimeout(defaults.timeout, options)]

\* defaults[methodName] after an invocation: merge builds new settings and
\* leaves the defaults as they are.
DefaultsAfterCall(defaults, options) == defaults

IdleCall == [pc |-> "idle"]

\* The caller holds its options objects, the client is constructed, and no
\* call has been made.
ConcInit ==
    /\ kHeap \in [OptionObjects -> CallerOptions]
    /\ kDefaults \in {MethodDefaults(n) : n \in RetryCodesNames}
    /\ kClient = ClientMembers
    /\ kCalls = [i \in Calls |-> IdleCall]

\* The same with nothing put into the options objects: the start of the
\* behaviours that are not about two calls.
ConcIdle ==
    /\ kHeap = [o \in OptionObjects |-> EmptyObject]
    /\ kDefaults = MethodDefaults("idempotent")
    /\ kClient = ClientMembers
    /\ kCalls = [i \in Calls |-> IdleCall]

\* A single service call not begun, against a service of one page: the
\* start of the behaviours that are not about a single call.
CallIdle ==
    /\ CallInit
    /\ retryCodesName = "idempotent"
    /\ numPages = 1

\* A method is invoked with a request and one of the caller's options
\* objects: it writes the routing header into that object and hands both
\* to the inner API call, which merges the settings and waits for the stub.
KInvoke ==
    /\ \E i \in Calls, method \in KMethods, o \in OptionObjects :
       \E request \in {RequestFor(method, n) : n \in ResourceNames} :
          LET prep == PrepareCall(method, request, kHeap[o], Absent)
              merged == MergeSettings(kDefaults.settings, prep.value.options)
          IN  /\ kCalls[i].pc = "idle"
              /\ kHeap' = [kHeap EXCEPT ![o] = prep.value.options]
              /\ kDefaults' = DefaultsAfterCall(kDefaults, prep.value.options)
              /\ kCalls' = [kCalls EXCEPT ![i] =
                    [pc |-> "waitStub",
                     method |-> method,
                     request |-> request,
                     options |-> o,
                     given |-> kHeap[o],
                     after |-> {j \in Calls : kCalls[j].pc = "done"},
                     retry |-> merged.retry,
                     timeout |-> MergeTimeout(kDefaults.timeout, prep.value.options),
                     sent |-> Absent]]
    /\ UNCHANGED kClient
    /\ UNCHANGED nonConcVars

\* The stub promise has settled for a call: the request goes out with the
\* metadata built, now, from the headers object of the call's settings.
KDispatch ==
    /\ \E i \in Calls :
          /\ kCalls[i].pc = "waitStub"
          /\ kCalls' = [kCalls EXCEPT ![i].pc = "inflight",
                ![i].sent =
                   [method |-> kCalls[i].method,
                    request |-> kCalls[i].request,
                    metadata |->
                       BuildMetadata(kHeap[kCalls[i].options].otherArgs.headers)]]
    /\ UNCHANGED <<kHeap, kDefaults, kClient>>
    /\ UNCHANGED nonConcVars

\* The service answers a call.
KReply ==
    /\ \E i \in Calls :
          /\ kCalls[i].pc = "inflight"
          /\ kCalls' = [kCalls EXCEPT ![i].pc = "done"]
    /\ UNCHANGED <<kHeap, kDefaults, kClient>>
    /\ UNCHANGED nonConcVars

KNext ==
    \/ KInvoke
    \/ KDispatch
    \/ KReply

----------------------------------------------------------------------------
(* The constructor: the address, the port and the scopes the client is     *)
(* made with.                                                              *)

\* The static getters of the class.
servicePath == "cloudiot.googleapis.com"
apiEndpoint == "cloudiot.googleapis.com"
port == 443
scopes ==
    <<"https://www.googleapis.com/auth/cloud-platform",
      "https://www.googleapis.com/auth/cloudiot">>

\* The keys a caller may set in the options.
CtorKeys == {"servicePath", "apiEndpoint", "port", "scopes", "fallback"}

\* The ports a caller may ask for: the default one and another.
CtorPorts == {443, 8443}

\* The value a caller gives under a key (p under port).
CtorOptionValue(k, p) ==
    CASE k = "servicePath" -> "a.example.com"
      [] k = "apiEndpoint" -> "b.example.com"
      [] k = "port" -> p
      [] k = "scopes" -> <<"https://www.googleapis.com/auth/cloudiot">>
      [] k = "fallback" -> TRUE

\* The options objects a caller may give: any of the keys.
CtorOptions ==
    { [k \in keys |-> CtorOptionValue(k, p)] :
         keys \in SUBSET CtorKeys, p \in CtorPorts }

\* Object.assign(target, source): the source's properties over the
\* target's.
ObjectAssign(target, source) ==
    [k \in DOMAIN target \cup DOMAIN source |->
        IF k \in DOMAIN source THEN source[k] ELSE target[k]]

\* opts.servicePath || <the static servicePath>: apiEndpoint left out.
ResolveServicePath_ignoresEndpoint(opts) ==
    IF "servicePath" \in DOMAIN opts THEN opts.servicePath ELSE servicePath

\* opts.servicePath || opts.apiEndpoint || this.constructor.servicePath
ResolveServicePath(opts) ==
    IF "servicePath" \in DOMAIN opts THEN opts.servicePath
    ELSE IF "apiEndpoint" \in DOMAIN opts THEN opts.apiEndpoint
    ELSE servicePath

CtorInit ==
    /\ oPc = "idle"
    /\ oGiven = Absent
    /\ oOpts = Absent
    /\ oServicePath = "none"
    /\ oGrpc = Absent

\* new DeviceManagerClient(opts): opts = opts || {}, and in a browser
\* opts.fallback = true.
CtorEnter ==
    /\ oPc = "idle"
    /\ \E given \in CtorOptions \cup {Absent}, isBrowser \in BOOLEAN :
          /\ oGiven' = given
          /\ oOpts' = LET opts == IF IsAbsent(given) THEN EmptyObject ELSE given
                      IN  IF isBrowser THEN With(opts, "fallback", TRUE) ELSE opts
    /\ oPc' = "entered"
    /\ UNCHANGED <<oServicePath, oGrpc>>
    /\ UNCHANGED nonCtorVars

CtorResolveServicePath ==
    /\ oPc = "entered"
    /\ oServicePath' = ResolveServicePath(oOpts)
    /\ oPc' = "resolved"
    /\ UNCHANGED <<oGiven, oOpts, oGrpc>>
    /\ UNCHANGED nonCtorVars

\* opts = Object.assign({clientConfig: {}, port, servicePath}, opts)
CtorAssignDefaults ==
    /\ oPc = "resolved"
    /\ oOpts' = ObjectAssign([clientConfig |-> EmptyObject,
                              port |-> port,
                              servicePath |-> oServicePath], oOpts)
    /\ oPc' = "assigned"
    /\ UNCHANGED <<oGiven, oServicePath, oGrpc>>
    /\ UNCHANGED nonCtorVars

\* opts.scopes = this.constructor.scopes
CtorSetScopes ==
    /\ oPc = "assigned"
    /\ oOpts' = With(oOpts, "scopes", scopes)
    /\ oPc' = "scoped"
    /\ UNCHANGED <<oGiven, oServicePath, oGrpc>>
    /\ UNCHANGED nonCtorVars

\* const gaxGrpc = new gaxModule.GrpcClient(opts); this.auth = gaxGrpc.auth
CtorCreateGrpcClient ==
    /\ oPc = "scoped"
    /\ oGrpc' = oOpts
    /\ oPc' = "created"
    /\ UNCHANGED <<oGiven, oOpts, oServicePath>>
    /\ UNCHANGED nonCtorVars

CtorNext ==
    \/ CtorEnter
    \/ CtorResolveServicePath
    \/ CtorAssignDefaults
    \/ CtorSetScopes
    \/ CtorCreateGrpcClient

----------------------------------------------------------------------------
(* The manager sample (samples/manager/manager.js): the commands that      *)
(* unbind a device from its gateways and clear a registry.  A step is one  *)
(* run of JavaScript to completion: a command's body up to its first       *)
(* pending await, or the continuation of an answered request; the service  *)
(* answers only between such runs.                                         *)

\* The ids the service may hold: the registries of the location (the
\* registry the commands are given is r0), the devices of r0, and the
\* gateways the device d0 is bound to.
RegistryIds == {"r0", "r1"}
DeviceIds == {"d0", "d1"}
GatewayIds == {"g1", "g2"}

\* A request handed to the client; a request for the deletion of the
\* registry notes the device deletions in flight when it was issued.
Request(op, id) == [op |-> op, id |-> id, whilePending |-> {}]

\* The requests the inner function unbindDeviceFromAllGateways issues when
\* it is called: the list of the device's gateways if device is set, and
\* nothing otherwise.
ListGatewaysIf(device) ==
    IF IsAbsent(device) THEN {} ELSE {Request("listDevices", "d0")}

\* unbindDeviceFromGateway(..., gatewayId): the inner function is called
\* and issues the request.
UnbindRequests(gateways) ==
    {Request("unbindDeviceFromGateway", g) : g \in gateways}

\* deleteDevice(device.id, registryId, ...) for every element of the list.
DeleteRequests(listed) == {Request("deleteDevice", id) : id \in listed}

MgrInit ==
    /\ mCmd = "none"
    /\ mArg = "none"
    /\ mDevice = Absent
    /\ mPending = {}
    /\ mIssued = {}
    /\ mService0 = Absent
    /\ mBound = {}
    /\ mDevicesLeft = {}
    /\ mRegistryPath = FALSE

\* What the service holds when a command starts, and the client the sample
\* is run with: the samples call iotClient.registryPath, which the
\* published client they require defines and the client of src/v1 (it has
\* deviceRegistryPath) does not.
ServiceStarts ==
    /\ mRegistryPath' \in BOOLEAN
    /\
       \E registries \in SUBSET RegistryIds, devices \in SUBSET DeviceIds,
          gateways \in SUBSET GatewayIds :
             /\ mService0' = [registries |-> registries, devices |-> devices,
                              gateways |-> gateways]
             /\ mBound' = gateways
             /\ mDevicesLeft' = devices

\* The command unbindDeviceFromGateway <gatewayId>.
RunUnbindDeviceFromGateway ==
    /\ mCmd = "none"
    /\ ServiceStarts
    /\ \E g \in GatewayIds :
          /\ mArg' = g
          /\ mPending' = UnbindRequests({g})
          /\ mIssued' = UnbindRequests({g})
    /\ mCmd' = "unbindDeviceFromGateway"
    /\ UNCHANGED mDevice
    /\ UNCHANGED nonMgrVars

\* The command unbindDeviceFromAllGateways: getDevice() is called and not
\* awaited - it issues its request and returns - and then the inner
\* function unbindDeviceFromAllGateways() is called and tests device.
RunUnbindDeviceFromAllGateways ==
    /\ mCmd = "none"
    /\ ServiceStarts
    /\ LET issued == {Request("getDevice", "d0")} \cup ListGatewaysIf(mDevice)
       IN  /\ mPending' = issued
           /\ mIssued' = issued
    /\ mCmd' = "unbindDeviceFromAllGateways"
    /\ UNCHANGED <<mArg, mDevice>>
    /\ UNCHANGED nonMgrVars

\* The command clearRegistry: up to the await of listDeviceRegistries.
RunClearRegistry ==
    /\ mCmd = "none"
    /\ ServiceStarts
    /\ mPending' = {Request("listDeviceRegistries", "location")}
    /\ mIssued' = {Request("listDeviceRegistries", "location")}
    /\ mCmd' = "clearRegistry"
    /\ UNCHANGED <<mArg, mDevice>>
    /\ UNCHANGED nonMgrVars

\* deleteRegistry(): iotClient.registryPath(...) is called first; without
\* that method the call throws and no request is issued.
DeleteRegistryRequests(whilePending) ==
    IF mRegistryPath
    THEN {[op |-> "deleteDeviceRegistry", id |-> "r0",
           whilePending |-> whilePending]}
    ELSE {}

\* The choices of the option gatewayAuthMethod of the command createGateway.
GatewayAuthMethods ==
    {"ASSOCIATION_ONLY", "DEVICE_AUTH_TOKEN_ONLY",
     "ASSOCIATION_AND_DEVICE_AUTH_TOKEN", "GATEWAY_AUTH_METHOD_UNSPECIFIED"}

\* opts as yargs hands it to the handler of createGateway: an option that
\* was not given has its default.
CreateGatewayOpts(given) ==
    [registryId |-> Str("r0"), gatewayId |-> Str("g1"),
     publicKeyFormat |-> Str("RSA_X509_PEM"), publicKeyFile |-> Absent,
     gatewayAuthMethod |-> IF IsAbsent(given) THEN Str("ASSOCIATION_ONLY")
                           ELSE given]

\* The arguments the handler of createGateway calls createGateway with.
CreateGatewayArguments(opts) ==
    <<Str("projectId"), Str("cloudRegion"), opts.registryId, opts.gatewayId,
      opts.publicKeyFormat, opts.publicKeyFile>>

\* The n-th parameter of a function called with args: undefined when fewer
\* arguments were passed.
Parameter(args, n) == IF n <= Len(args) THEN args[n] ELSE Absent

\* createGateway(projectId, cloudRegion, registryId, gatewayId,
\* publicKeyFormat, publicKeyFile, gatewayAuthMethod): the device of the
\* createDevice request.
GatewayDevice(args) ==
    [id |-> Parameter(args, 4),
     gatewayConfig |-> [gatewayType |-> Str("GATEWAY"),
                        gatewayAuthMethod |-> Parameter(args, 7)]]

\* The command createGateway: the inner createDevice() is called and not
\* awaited; it renders the registry path, builds the device and issues the
\* createDevice request.
RunCreateGateway ==
    /\ mCmd = "none"
    /\ ServiceStarts
    /\ \E given \in {Absent} \cup {Str(v) : v \in GatewayAuthMethods} :
          LET opts == CreateGatewayOpts(given)
          IN  /\ mArg' = opts.gatewayAuthMethod.str
              /\ mDevice' = IF mRegistryPath'
                            THEN GatewayDevice(CreateGatewayArguments(opts))
                            ELSE mDevice
    /\ LET issued == IF mRegistryPath' THEN {Request("createDevice", "g1")}
                     ELSE {}
       IN  /\ mPending' = issued
           /\ mIssued' = issued
    /\ mCmd' = "createGateway"
    /\ UNCHANGED nonMgrVars

\* The requests the continuation of an answered request issues.
\*  - getDevice: device = response, and nothing more.
\*  - listDevices (the gateways of the device): unbindDeviceFromGateway is
\*    called for every gateway of the response.
\*  - listDeviceRegistries, in clearRegistry: deleteDevice is called for
\*    every element of the list; each call issues its request and returns
\*    a promise that is already resolved, so Promise.all resolves and
\*    deleteRegistry() issues its request in the same run.
Continuation(r) ==
    CASE r.op = "listDevices" -> UnbindRequests(mBound)
      [] r.op = "listDeviceRegistries" ->
            DeleteRequests(mService0.registries) \cup
            DeleteRegistryRequests(
                {q.id : q \in DeleteRequests(mService0.registries)})
      [] OTHER -> {}

\* The service answers a request in flight, having carried it out, and the
\* code waiting for the answer runs.
ServiceAnswers ==
    /\ \E r \in mPending :
          /\ mPending' = (mPending \ {r}) \cup Continuation(r)
          /\ mIssued' = mIssued \cup Continuation(r)
          /\ mDevice' = IF r.op = "getDevice" THEN [id |-> r.id] ELSE mDevice
          /\ mBound' = IF r.op = "unbindDeviceFromGateway"
                       THEN mBound \ {r.id} ELSE mBound
          /\ mDevicesLeft' = IF r.op = "deleteDevice"
                             THEN mDevicesLeft \ {r.id} ELSE mDevicesLeft
    /\ UNCHANGED <<mCmd, mArg, mService0, mRegistryPath>>
    /\ UNCHANGED nonMgrVars

MgrNext ==
    \/ RunUnbindDeviceFromGateway
    \/ RunUnbindDeviceFromAllGateways
    \/ RunClearRegistry
    \/ RunCreateGateway
    \/ ServiceAnswers

----------------------------------------------------------------------------
(* createJwt of the access-token samples (samples/access_token_example/    *)
(* common.js, and its copy in access_token.js).                            *)

\* Date.now() / 1000: milliseconds in a second.
MsPerSecond == 1000

\* parseInt(ms / 1000): the whole seconds of an instant in milliseconds.
WholeSeconds(ms) == ms \div MsPerSecond

\* 20 * 60: twenty minutes, in seconds.
TwentyMinutes == 20 * 60

ProjectIds == {"p0", "p1"}

\* jwtPayload, with the clock read at now1 for iat and at now2 for exp.
jwtPayload(projectId, now1, now2) ==
    [iat |-> WholeSeconds(now1),
     exp |-> WholeSeconds(now2) + TwentyMinutes,
     aud |-> projectId]

JwtInit ==
    /\ jClock = 0
    /\ jPayload = Absent

\* Time passes.
ClockAdvances ==
    /\ jClock < MaxClock
    /\ jClock' = jClock + 1
    /\ UNCHANGED jPayload
    /\ UNCHANGED <<clientVars, tokVars, topicVars>>

\* createJwt(projectId, privateKeyFile, algorithm): Date.now() is read once
\* for iat and once more for exp, and the payload is signed as it is.
CreateJwt ==
    /\ \E projectId \in ProjectIds, elapsed \in 0..MaxElapsed :
          /\ jClock + elapsed <= MaxClock
          /\ jPayload' = jwtPayload(projectId, jClock, jClock + elapsed)
          /\ jClock' = jClock + elapsed
    /\ UNCHANGED <<clientVars, tokVars, topicVars>>

JwtNext ==
    \/ ClockAdvances
    \/ CreateJwt

----------------------------------------------------------------------------
(* The access-token script (samples/access_token_example/access_token.js): *)
(* the commands generateAccessToken, publishPubSubMessage and              *)
(* downloadCloudStorageFile.  Every request is awaited, so one request is  *)
(* in flight at a time.                                                    *)

\* The requests of a command after generateAccessToken, in the order of the
\* code, each with the status assert.strictEqual expects of its response.
RequestsOf(cmd) ==
    CASE cmd = "publishPubSubMessage" ->
            <<[step |-> "createTopic", expects |-> 200],
              [step |-> "publish", expects |-> 200],
              [step |-> "deleteTopic", expects |-> 200]>>
      [] cmd = "downloadCloudStorageFile" ->
            <<[step |-> "createBucket", expects |-> 200],
              [step |-> "upload", expects |-> 200],
              [step |-> "download", expects |-> 200],
              [step |-> "deleteObject", expects |-> 204],
              [step |-> "deleteBucket", expects |-> 204]>>
      [] OTHER -> <<>>

\* What request(options) of gaxios settles with: a response of a 2xx
\* status, or a rejection for any other status and for a network failure.
GaxiosError == Thrown("GaxiosError")
Responses == {[status |-> 200], [status |-> 204]}

\* The answers a request can get: a service rejects a request whose bearer
\* token is undefined.
AnswersFor(step, log) ==
    IF step # "generateAccessToken" /\ IsError(log[1].answer)
    THEN {GaxiosError}
    ELSE Responses \cup {GaxiosError}

\* The position of a step in the requests of a command.
PositionOf(cmd, step) ==
    CHOOSE i \in 1..Len(RequestsOf(cmd)) : RequestsOf(cmd)[i].step = step

\* The request awaited after step was answered with answer, "none" when
\* the function returns.  generateAccessToken catches the rejection of its
\* request, prints it and returns undefined, and the command goes on.  In
\* the try block of the command a rejection, or a status other than the
\* expected one, is thrown to the catch clause, which prints it; the
\* function then returns.
AwaitedAfter(cmd, step, answer) ==
    IF step = "generateAccessToken"
    THEN IF Len(RequestsOf(cmd)) = 0 THEN "none" ELSE RequestsOf(cmd)[1].step
    ELSE LET i == PositionOf(cmd, step)
         IN  IF IsError(answer) \/ answer.status # RequestsOf(cmd)[i].expects
             THEN "none"
             ELSE IF i < Len(RequestsOf(cmd)) THEN RequestsOf(cmd)[i + 1].step
             ELSE "none"

TokInit ==
    /\ tCmd = "none"
    /\ tPending = "none"
    /\ tLog = <<>>
    /\ tExit = Absent

\* The command generateAccessToken, up to the await of its request.
RunGenerateAccessToken ==
    /\ tCmd = "none"
    /\ tCmd' = "generateAccessToken"
    /\ tPending' = "generateAccessToken"
    /\ UNCHANGED <<tLog, tExit>>
    /\ UNCHANGED <<clientVars, jwtVars, topicVars>>

\* The command publishPubSubMessage, up to the await of the token request.
RunPublishPubSubMessage ==
    /\ tCmd = "none"
    /\ tCmd' = "publishPubSubMessage"
    /\ tPending' = "generateAccessToken"
    /\ UNCHANGED <<tLog, tExit>>
    /\ UNCHANGED <<clientVars, jwtVars, topicVars>>

\* The command downloadCloudStorageFile, up to the await of the token
\* request.
RunDownloadCloudStorageFile ==
    /\ tCmd = "none"
    /\ tCmd' = "downloadCloudStorageFile"
    /\ tPending' = "generateAccessToken"
    /\ UNCHANGED <<tLog, tExit>>
    /\ UNCHANGED <<clientVars, jwtVars, topicVars>>

\* The request awaited is answered and the command runs up to its next
\* await, or returns.
RequestSettles ==
    /\ tPending # "none"
    /\ \E answer \in AnswersFor(tPending, tLog) :
          /\ tLog' = Append(tLog, [step |-> tPending, answer |-> answer])
          /\ tPending' = AwaitedAfter(tCmd, tPending, answer)
    /\ UNCHANGED <<tCmd, tExit>>
    /\ UNCHANGED <<clientVars, jwtVars, topicVars>>

\* The handler has returned and nothing is pending: the process ends.  The
\* script never sets process.exitCode and no rejection is left unhandled,
\* so its exit status is 0.
ProcessExits ==
    /\ tCmd # "none"
    /\ tPending = "none"
    /\ IsAbsent(tExit)
    /\ tExit' = [code |-> 0]
    /\ UNCHANGED <<tCmd, tPending, tLog>>
    /\ UNCHANGED <<clientVars, jwtVars, topicVars>>

TokNext ==
    \/ RunGenerateAccessToken
    \/ RunPublishPubSubMessage
    \/ RunDownloadCloudStorageFile
    \/ RequestSettles
    \/ ProcessExits

----------------------------------------------------------------------------
(* setupIotTopic of the manager sample (samples/manager/manager.js): the   *)
(* topic's IAM policy is read, given the Cloud IoT service account as a    *)
(* publisher, and written back.                                            *)

serviceAccount == "serviceAccount:cloud-iot@system.gserviceaccount.com"

publisherRole == "roles/pubsub.publisher"

\* The roles and members a policy of the model holds.
Roles == {publisherRole, "roles/viewer"}
Members == {serviceAccount, "user:a"}

\* The members lists of a binding: a member is listed once.
MembersLists ==
    {<<>>} \cup {<<a>> : a \in Members}
           \cup {ms \in Members \X Members : ms[1] # ms[2]}

\* A binding of a policy, with or without a members list.
Bindings ==
    {[role |-> r] : r \in Roles} \cup
    {[role |-> r, members |-> ms] : r \in Roles, ms \in MembersLists}

\* The policies a topic may start with: none, one without bindings, and
\* one with up to MaxBindings bindings.
Policies ==
    {Absent, EmptyObject} \cup
    {[bindings |-> bs] : bs \in UNION {[1..n -> Bindings] : n \in 0..MaxBindings}}

\* policy.bindings.forEach(...): the binding of the role that the loop
\* leaves in binding, as its position in bindings, 0 when hasRole stays
\* false.  The return false of the callback does not stop forEach, so it
\* is the last binding of the role.
FindBinding(bindings, role) ==
    LET found == {i \in 1..Len(bindings) : bindings[i].role = role}
    IN  IF found = {} THEN 0 ELSE CHOOSE i \in found : \A j \in found : j <= i

\* A variant that starts every members list afresh.
MembersOf_fresh(binding) == <<>>

\* binding.members || (binding.members = []).
MembersOf(binding) ==
    IF "members" \in DOMAIN binding THEN binding.members ELSE <<>>

\* A variant that pushes the service account without looking for it.
EnsureMember_always(members) == Append(members, serviceAccount)

\* if (binding.members.indexOf(serviceAccount) === -1) push(serviceAccount).
EnsureMember(members) ==
    IF \E i \in 1..Len(members) : members[i] = serviceAccount
    THEN members
    ELSE Append(members, serviceAccount)

\* The policy setPolicy() passes to topic.iam.setPolicy, for the policy
\* getPolicy answered.
UpdatedPolicy(read) ==
    LET policy == IF IsAbsent(read) THEN EmptyObject ELSE read
        bindings == IF "bindings" \in DOMAIN policy THEN policy.bindings
                    ELSE <<>>
        i == FindBinding(bindings, publisherRole)
    IN  With(policy, "bindings",
             IF i # 0
             THEN [bindings EXCEPT
                     ![i] = With(bindings[i], "members",
                                 EnsureMember(MembersOf(bindings[i])))]
             ELSE Append(bindings, [role |-> publisherRole,
                                    members |-> <<serviceAccount>>]))

TopicIdle ==
    /\ pPolicy = Absent
    /\ pPc = "idle"
    /\ pRead = Absent
    /\ pWritten = Absent
    /\ pRuns = 0

TopicInit ==
    /\ pPolicy \in Policies
    /\ pPc = "idle"
    /\ pRead = Absent
    /\ pWritten = Absent
    /\ pRuns = 0

\* setupIotTopic up to the answer of topic.iam.getPolicy().
TopicGetPolicy ==
    /\ pPc = "idle"
    /\ pRuns < MaxRuns
    /\ pRead' = pPolicy
    /\ pPc' = "read"
    /\ UNCHANGED <<pPolicy, pWritten, pRuns>>
    /\ UNCHANGED <<clientVars, jwtVars, tokVars>>

\* setPolicy() from the answer of getPolicy on: the policy is updated and
\* topic.iam.setPolicy(policy) writes it.
TopicSetPolicy ==
    /\ pPc = "read"
    /\ pWritten' = UpdatedPolicy(pRead)
    /\ pPolicy' = UpdatedPolicy(pRead)
    /\ pRuns' = pRuns + 1
    /\ pPc' = "idle"
    /\ UNCHANGED pRead
    /\ UNCHANGED <<clientVars, jwtVars, tokVars>>

TopicNext ==
    \/ TopicGetPolicy
    \/ TopicSetPolicy

\* The samples before anything was run.
SamplesIdle == JwtInit /\ TokInit /\ TopicIdle

Init == PtInit /\ CallInit /\ ConcIdle /\ CtorInit /\ MgrInit /\ SamplesIdle

Spec == Init /\ [][Next]_vars

\* The path methods run on a constructed client; no service call is part
\* of them.
SpecPath == Init /\ [][PtNext]_vars

\* Two invocations on one client, interleaved in every way.
InitCtor == PtInit /\ CallIdle /\ ConcIdle /\ CtorInit /\ MgrInit /\ SamplesIdle

\* The manager commands, each against every content of the service.
SpecMgr == InitCtor /\ [][MgrNext]_vars

\* The constructor, step by step, for every options object.
SpecCtor == InitCtor /\ [][CtorNext]_vars

InitConc == PtInit /\ CallIdle /\ ConcInit /\ CtorInit /\ MgrInit /\ SamplesIdle

\* The access-token script against every answer of the services.
SpecTok == InitCtor /\ [][TokNext]_vars

\* setupIotTopic run on a topic of every starting policy.
InitTopic ==
    /\ PtInit /\ CallIdle /\ ConcIdle /\ CtorInit /\ MgrInit
    /\ JwtInit /\ TokInit /\ TopicInit

SpecTopic == InitTopic /\ [][TopicNext]_vars

\* createJwt called at every instant.
SpecJwt == InitCtor /\ [][JwtNext]_vars

SpecConc == InitConc /\ [][KNext]_vars

----------------------------------------------------------------------------
(* Properties of the path codec (checked under SpecPath).                  *)

NoSlashIds == \A i \in 1..Len(ptIds) : ~HasSlash(ptIds[i])

\* The name was rendered from n identifiers and handed on undamaged.
RenderedFrom(n) == ptPc \in {"rendered", "matched"} /\ Len(ptIds) = n

\* A name conforms to a template when it has exactly the template's
\* segments and every literal segment is spelt as in the template.
Conforms(tmpl, path) ==
    LET segs == Split(path)
    IN  /\ Len(segs) = Len(tmpl)
        /\ \A i \in 1..Len(tmpl) : tmpl[i].kind = "lit" => segs[i] = tmpl[i].text

TemplateOf(matcher) ==
    CASE matcher = "device" -> devicePathTemplate
      [] matcher = "deviceRegistry" -> deviceRegistryPathTemplate
      [] matcher = "location" -> locationPathTemplate

\* C1: for identifiers without '/', devicePath renders a name, and the four
\* matchXFromDeviceName functions applied to that name return exactly the
\* project, location, registry and device it was rendered from.
C1_DeviceRoundTrip ==
    (RenderedFrom(4) /\ NoSlashIds) =>
        /\ ~IsError(ptPath)
        /\ (ptPc = "matched" /\ ptMatcher = "device") =>
              ptMatch = [project |-> Ok(ptIds[1]), location |-> Ok(ptIds[2]),
                         registry |-> Ok(ptIds[3]), device |-> Ok(ptIds[4])]

C1_Witness ==
    /\ RenderedFrom(4) /\ NoSlashIds
    /\ ptPc = "matched" /\ ptMatcher = "device"
    /\ ptIds[2] # ptIds[3]
    /\ ptIds[1] = W_locations

\* C2: for identifiers without '/', the three registry matchers applied to
\* deviceRegistryPath(p, l, r) return p, l and r, and the two location
\* matchers applied to locationPath(p, l) return p and l.
C2_RegistryLocationRoundTrip ==
    /\ (RenderedFrom(3) /\ NoSlashIds) =>
          /\ ~IsError(ptPath)
          /\ (ptPc = "matched" /\ ptMatcher = "deviceRegistry") =>
                ptMatch = [project |-> Ok(ptIds[1]), location |-> Ok(ptIds[2]),
                           registry |-> Ok(ptIds[3])]
    /\ (RenderedFrom(2) /\ NoSlashIds) =>
          /\ ~IsError(ptPath)
          /\ (ptPc = "matched" /\ ptMatcher = "location") =>
                ptMatch = [project |-> Ok(ptIds[1]), location |-> Ok(ptIds[2])]

C2_Witness ==
    /\ RenderedFrom(2) /\ NoSlashIds
    /\ ptPc = "matched" /\ ptMatcher = "location"
    /\ ptIds[1] # ptIds[2]

\* C3: a matcher given a name that does not conform to its resource's
\* template (a segment missing, segments too many, a literal misspelt)
\* returns no component: every matcher of that resource throws.
C3_NonConformingRejected ==
    (ptPc = "matched" /\ ~Conforms(TemplateOf(ptMatcher), ptPath.value)) =>
        \A c \in DOMAIN ptMatch : IsError(ptMatch[c])

\* A rendered device name given to the registry matchers.
C3_Witness ==
    /\ ptPc = "matched" /\ ptMatcher = "deviceRegistry"
    /\ RenderedFrom(4)
    /\ ~Conforms(deviceRegistryPathTemplate, ptPath.value)
    /\ \A c \in DOMAIN ptMatch : IsError(ptMatch[c])

----------------------------------------------------------------------------
(* Properties of the service calls (checked under Spec).                   *)

RECURSIVE AllItems(_)
\* The items of pages 1..n, in the order the service holds them.
AllItems(n) == IF n = 0 THEN <<>> ELSE AllItems(n - 1) \o PageItems(n)

FirstPages(n) == [i \in 1..n |-> i]

Ended == cPc = "done"

NoFailedReply == ~anyFailed

\* C4: a list call in auto-paginate mode against a service of N pages
\* resolves with the items of all pages in the service's order, after
\* exactly N page requests (one per page, in order), and sends nothing
\* once the page without a token has arrived.
C4_AutoPaginateInv ==
    (cMode = "auto" /\ Ended /\ cOutcome.ok) =>
        /\ cOutcome.how \in {"promise", "callback"}
        /\ cOutcome.result.resources.items = AllItems(numPages)
        /\ served = FirstPages(numPages)
        /\ NoFailedReply => Len(sent) = numPages

C4_AutoPaginate ==
    /\ []C4_AutoPaginateInv
    /\ [][(cMode = "auto" /\ Ended) => sent' = sent]_vars

C4_Witness ==
    /\ cMode = "auto" /\ Ended /\ cOutcome.ok
    /\ cMethod = "listDevices"
    /\ numPages = 3
    /\ NoFailedReply
    /\ Len(cOutcome.result.resources.items) = 3

\* C5: a one-page list call (autoPaginate: false) resolves with a next
\* request that is null exactly when the response carries no page token,
\* and that otherwise equals the call's request in every field but
\* pageToken, which is the response's nextPageToken.  A caller that calls
\* again with the next request until it is null is served every page once,
\* in order, and is never left without a next step before the end.
LoopOver ==
    Ended /\ (cOutcome.ok => IsAbsent(cOutcome.result.next))

C5_ManualPaging ==
    cMode = "manual" =>
        /\ (Ended /\ cOutcome.ok) =>
              LET next == cOutcome.result.next
                  token == cOutcome.result.response.nextPageToken
              IN  /\ IsAbsent(next) <=> token.tok = 0
                  /\ ~IsAbsent(next) =>
                        /\ DOMAIN next = DOMAIN cArg \cup {"pageToken"}
                        /\ \A f \in DOMAIN cArg \ {"pageToken"} : next[f] = cArg[f]
                        /\ next.pageToken = token
        /\ \E k \in 0..numPages : served = FirstPages(k)
        /\ (LoopOver /\ cOutcome.ok) => served = FirstPages(numPages)
        /\ ~LoopOver => ENABLED Next

C5_Witness ==
    /\ cMode = "manual" /\ LoopOver /\ cOutcome.ok
    /\ numPages = 3
    /\ served = <<1, 2, 3>>
    /\ "parent" \in DOMAIN cArg

\* C6 (amended): a call whose resolved settings are not retryable hands each
\* request to the stub at most once, whatever the failure; a call whose
\* settings are retryable and whose request keeps failing with a retry code
\* is sent again until its limit (maxRetries attempts, or the total
\* timeout) is reached, never beyond it, and then fails - with the retrying
\* caller's own DEADLINE_EXCEEDED error, not the error of the service.
LimitReached ==
    \/ cSettings.retry.maxRetries # Unset /\ cRetries >= cSettings.retry.maxRetries
    \/ cSettings.retry.totalTimeout # 0 /\ cElapsed >= cSettings.retry.totalTimeout

FailedOnRetryCode ==
    /\ Ended
    /\ ~cCancelled
    /\ ~IsAbsent(cSettings)
    /\ IsRetryable(cSettings)
    /\ lastReply \in cSettings.retry.retryCodes

DefaultRetry == ~IsAbsent(cOptions) /\ "retry" \notin DOMAIN cOptions

IdentifyingField(method) ==
    CASE method \in {"createDeviceRegistry", "listDeviceRegistries",
                     "createDevice", "listDevices", "bindDeviceToGateway",
                     "unbindDeviceFromGateway", "listDeviceRegistriesStream",
                     "listDevicesStream"} -> <<"parent", <<"parent">>>>
      [] method \in {"setIamPolicy", "getIamPolicy", "testIamPermissions"} ->
            <<"resource", <<"resource">>>>
      [] method = "updateDeviceRegistry" ->
            <<"device_registry.name", <<"deviceRegistry", "name">>>>
      [] method = "updateDevice" -> <<"device.name", <<"device", "name">>>>
      [] OTHER -> <<"name", <<"name">>>>

\* C8: every request the stub is handed, for each public method the stream
\* variants included, carries an x-goog-request-params header made from the
\* method's identifying request field.
ExpectedRoutingHeader(method, request) ==
    LET param == IdentifyingField(method)
    IN  fromParams(param[1], ReadPath(request, param[2]).value)

C8_RoutingHeaderOnEveryCall ==
    \A i \in 1..Len(sent) :
        /\ "x-goog-request-params" \in DOMAIN sent[i].metadata
        /\ sent[i].metadata["x-goog-request-params"]
              = ExpectedRoutingHeader(cMethod, sent[1].request)

\* C9 (amended): bindDeviceToGateway hands the stub the caller's request
\* with its three fields unchanged, and a routing header that is exactly
\* parent=<request.parent percent-encoded>: every '/' of the path as %2F,
\* and no other parameter.
RECURSIVE Unescape(_)
Unescape(str) ==
    IF Len(str) = 0 THEN <<>>
    ELSE IF Len(str) >= 3 /\ SubSeq(str, 1, 3) = <<"%", "2", "F">>
         THEN <<Slash>> \o Unescape(SubSeq(str, 4, Len(str)))
         ELSE <<Head(str)>> \o Unescape(Tail(str))

BindCallSent ==
    /\ cMethod = "bindDeviceToGateway"
    /\ Len(sent) > 0
    /\ "parent" \in DOMAIN cGiven.request

C9_BindRequestAndEncodedHeader ==
    BindCallSent =>
        \A i \in 1..Len(sent) :
            LET header == sent[i].metadata["x-goog-request-params"]
                value == SubSeq(header, 3, Len(header))
            IN  /\ sent[i].method = "bindDeviceToGateway"
                /\ sent[i].request = cGiven.request
                /\ DOMAIN sent[i].request = {"parent", "gatewayId", "deviceId"}
                /\ header[1] = "parent" /\ header[2] = "="
                /\ \A j \in 1..Len(value) : value[j] \notin {Slash, "&"}
                /\ Unescape(value) = cGiven.request.parent.str

C9_Witness ==
    /\ BindCallSent
    /\ cGiven.request.parent.str = RegistryName0
    /\ Ended /\ cOutcome.ok

\* C9 as stated: the header is parent=<request.parent> with the path as it
\* is, slashes included.
C9_Original ==
    BindCallSent =>
        \A i \in 1..Len(sent) :
            /\ sent[i].request = cGiven.request
            /\ sent[i].metadata["x-goog-request-params"]
                  = <<"parent", "=">> \o cGiven.request.parent.str

\* C10: every failure of a call of a request method - a failed request, a
\* status error, a stub that could not be created - reaches the caller as
\* a rejected promise or as the error of its callback, carrying the error
\* that occurred; a failure never becomes a success.
OriginalError ==
    IF stub = "failed" THEN StubError ELSE ServiceError(lastReply)

CallFailed ==
    /\ Ended
    /\ ~cCancelled
    /\ cMethod \in StubMethodSet
    /\ cOutcome.how # "thrown"
    /\ \/ stub = "failed"
       \/ lastReply \notin {"none", "OK"}

C10_FailuresReachCaller ==
    CallFailed =>
        /\ cOutcome.how = (IF cCallback THEN "callback" ELSE "promise")
        /\ ~cOutcome.ok
        /\ cOutcome.error = OriginalError

\* C13: a stream variant emits one 'data' event per element of every
\* page, in the service's order across the pages, and then exactly one
\* terminal signal - 'end' after the last page, or 'error' on a failure -
\* with no data and no second signal after it, whatever autoPaginate the
\* caller gave.  (The model keeps the data emitted in cCollected and the
\* terminal signal in cOutcome.)
C13_StreamInv ==
    cMode = "stream" =>
        /\ \E k \in 0..numPages :
              /\ cCollected = AllItems(k)
              /\ served = FirstPages(k)
        /\ ~Ended => cOutcome = NoOutcome
        /\ Ended =>
              /\ cOutcome.how = "stream"
              /\ cOutcome.ok => cCollected = AllItems(numPages)
              /\ cOutcome.ok => served = FirstPages(numPages)

C13_StreamSignals ==
    /\ []C13_StreamInv
    /\ [][(cMode = "stream" /\ Ended) =>
              (cCollected' = cCollected /\ cOutcome' = cOutcome)]_vars

C13_Witness ==
    /\ cMode = "stream" /\ Ended /\ cOutcome.ok
    /\ cMethod = "listDeviceRegistriesStream"
    /\ "autoPaginate" \in DOMAIN cGiven.options
    /\ cGiven.options.autoPaginate
    /\ numPages = 3
    /\ Len(cCollected) = 3

\* C12: once the caller has cancelled a list call that collects all
\* pages, no further page request is handed to the stub.  (A call in this
\* mode hands the caller nothing before it completes, so there are no
\* items delivered earlier to keep.)
C12_NoRequestAfterCancel ==
    cCancelled => Len(sent) = sentAtCancel

\* C16: every service method, called with the request left out, takes the
\* request to be an empty object and goes on to hand it to the stub: it
\* does not throw before that.
RequestOmitted == cPc # "idle" /\ IsAbsent(cGiven.request)

C16_OmittedRequestDispatched ==
    RequestOmitted =>
        /\ cOutcome.how # "thrown"
        /\ \A i \in 1..Len(sent) :
              DOMAIN sent[i].request \subseteq {"pageToken"}

\* The request the caller passed, an empty object when it passed none.
CallerRequest ==
    IF IsAbsent(cGiven.request) THEN EmptyObject ELSE cGiven.request

\* Every request handed to the stub went to the stub method named as the
\* client method called (for a stream method, as the list method it
\* wraps), and none was handed over while the stub was being created.
C23_DispatchInv ==
    /\ stub = "pending" => sent = <<>>
    /\ \A i \in 1..Len(sent) :
          /\ sent[i].method \in StubMethodSet
          /\ cMethod \in StubMethodSet => sent[i].method = cMethod
          /\ cMethod \in StreamMethods => sent[i].method = InnerCallOf(cMethod)
    /\ Len(sent) >= 1 => sent[1].request = CallerRequest

\* C23: a client method invokes the stub method of its own name with the
\* caller's request; a call made before the stub exists is handed to the
\* stub once the stub is ready, in one step and once.
C23_DispatchesToSameName ==
    /\ []C23_DispatchInv
    /\ [][/\ Len(sent') <= Len(sent) + 1
          /\ (cPc = "waitStub" /\ cPc' # "waitStub") =>
                \/ stub = "failed" /\ sent' = sent
                \/ /\ stub = "ready"
                   /\ Len(sent') = Len(sent) + 1
                   /\ sent'[Len(sent')].request = cArg]_vars

\* The last of the registered methods has been handed to the stub.
C23_Witness ==
    /\ cPc = "inflight"
    /\ cMethod = "unbindDeviceFromGateway"
    /\ Len(sent) = 1
    /\ sent[1].method = "unbindDeviceFromGateway"
    /\ "parent" \in DOMAIN sent[1].request

\* The call was handed to the inner API call: the method did not throw.
Prepared == cPc # "idle" /\ cOutcome.how # "thrown"

\* C24: a function passed in the place of the options, with no third
\* argument, is the callback and the options of the call are empty; options
\* passed as an object are kept and the third argument, if any, is the
\* callback; either way the routing header is in the options' headers.
C24_OptionsOrCallback ==
    (Prepared /\ cMethod \in StubMethodSet) =>
        /\ ("function" \in DOMAIN cGiven.options /\ IsAbsent(cGiven.callback)) =>
              /\ cCallback
              /\ DOMAIN cOptions = {"otherArgs"}
        /\ "function" \notin DOMAIN cGiven.options =>
              /\ cCallback = ~IsAbsent(cGiven.callback)
              /\ ~IsAbsent(cGiven.options) =>
                    \A k \in DOMAIN cGiven.options :
                        k \in DOMAIN cOptions /\ cOptions[k] = cGiven.options[k]
        /\ "otherArgs" \in DOMAIN cOptions
        /\ "headers" \in DOMAIN cOptions.otherArgs
        /\ "x-goog-request-params" \in DOMAIN cOptions.otherArgs.headers
        /\ cOptions.otherArgs.headers["x-goog-request-params"] =
              fromParams(RoutingParam(cMethod)[1],
                         ReadPath(CallerRequest, RoutingParam(cMethod)[2]).value)

\* A call given a function as its second argument has been prepared.
C24_Witness ==
    /\ Prepared
    /\ cMethod = "getDevice"
    /\ "function" \in DOMAIN cGiven.options
    /\ IsAbsent(cGiven.callback)
    /\ cCallback
    /\ ~IsAbsent(cGiven.request)
    /\ "name" \in DOMAIN cGiven.request

----------------------------------------------------------------------------
(* Properties of two invocations on one client (checked under SpecConc).   *)

WentOut(i) == kCalls[i].pc \in {"inflight", "done"}

\* C11: under every interleaving of two invocations on one client - two
\* that were given the same options object with different requests among
\* them - each request reaches the stub with the request and the routing
\* header of its own invocation, and the members the constructor set on
\* the client stay as they were.
C11_CallsIndependent ==
    /\ kClient = ClientMembers
    /\ \A i \in Calls :
          WentOut(i) =>
              /\ kCalls[i].sent.method = kCalls[i].method
              /\ kCalls[i].sent.request = kCalls[i].request
              /\ kCalls[i].sent.metadata["x-goog-request-params"]
                    = ExpectedRoutingHeader(kCalls[i].method, kCalls[i].request)

\* C17: the retry and timeout a caller gives with one invocation are
\* those of that invocation only: the defaults of the method stay the
\* construction-time ones, and an invocation made without them - a later
\* one of the same method included - runs with the defaults.
ConstructionDefaults == {MethodDefaults(n) : n \in RetryCodesNames}

NoOverride(i) ==
    /\ "retry" \notin DOMAIN kCalls[i].given
    /\ "timeout" \notin DOMAIN kCalls[i].given

----------------------------------------------------------------------------
(* Properties of the constructor (checked under SpecCtor).                 *)

Constructed == oPc = "created"

Given(k) == ~IsAbsent(oGiven) /\ k \in DOMAIN oGiven

\* C14: the client authenticates with the scopes the caller gave to the
\* constructor, and with the default pair only when the caller gave none.
C14_CallerScopesHonoured ==
    Constructed =>
        oGrpc.scopes =
            (IF Given("scopes") THEN oGiven.scopes
             ELSE <<"https://www.googleapis.com/auth/cloud-platform",
                    "https://www.googleapis.com/auth/cloudiot">>)

\* C15: the client is made with the address options.servicePath if given,
\* else options.apiEndpoint if given, else cloudiot.googleapis.com, and
\* with the port options.port if given, else 443; giving only one of
\* address and port leaves the other at its default.
C15_AddressAndPort ==
    Constructed =>
        /\ oGrpc.servicePath =
              (IF Given("servicePath") THEN oGiven.servicePath
               ELSE IF Given("apiEndpoint") THEN oGiven.apiEndpoint
               ELSE "cloudiot.googleapis.com")
        /\ oGrpc.port = (IF Given("port") THEN oGiven.port ELSE 443)

C15_Witness ==
    /\ Constructed
    /\ Given("apiEndpoint") /\ ~Given("servicePath") /\ ~Given("port")
    /\ oGrpc.servicePath = "b.example.com"
    /\ oGrpc.port = 443

----------------------------------------------------------------------------
(* Properties of the manager commands.                                      *)

\* The command has run and none of its requests is in flight.
Quiescent(cmd) == mCmd = cmd /\ mPending = {}

\* The ids the requests issued for an operation carry.
IssuedIds(op) == {r.id : r \in {q \in mIssued : q.op = op}}

\* C18: unbindDeviceFromAllGateways on a device bound to gateways G1..Gn
\* issues an unbindDeviceFromGateway request for every Gi, so that once all
\* its requests are answered the device is bound to no gateway.
C18_UnbindsFromAllGateways ==
    Quiescent("unbindDeviceFromAllGateways") =>
        /\ mService0.gateways \subseteq IssuedIds("unbindDeviceFromGateway")
        /\ mBound = {}

\* C19: clearRegistry issues its deleteDeviceRegistry request only when
\* every device deletion it started has been answered.
C19_RegistryDeletedAfterDevices ==
    mCmd = "clearRegistry" =>
        \A r \in mIssued :
            r.op = "deleteDeviceRegistry" => r.whilePending = {}

\* C20: the device ids clearRegistry asks to delete are exactly the ids of
\* the devices of the registry it clears.
C20_DeletesDevicesOfRegistry ==
    (mCmd = "clearRegistry" /\ Request("listDeviceRegistries", "location") \notin mPending) =>
        IssuedIds("deleteDevice") = mService0.devices

\* C21: the device of the createDevice request of createGateway has the
\* gatewayAuthMethod of the command's option gatewayAuthMethod, which is
\* ASSOCIATION_ONLY when the option is not given.
C21_GatewayAuthMethodOfOption ==
    (mCmd = "createGateway" /\ Request("createDevice", "g1") \in mIssued) =>
        mDevice.gatewayConfig.gatewayAuthMethod = Str(mArg)

----------------------------------------------------------------------------
(* Properties of the samples.                                               *)

\* C25: the payload createJwt signs has the project id as aud, and an exp
\* exactly 1200 seconds after its iat, whenever it is called.
C25_ExpiresTwentyMinutesAfterIssue ==
    ~IsAbsent(jPayload) =>
        /\ jPayload.aud \in ProjectIds
        /\ jPayload.exp = jPayload.iat + 1200

\* The requests of the script that were rejected.
RejectedRequests == {i \in 1..Len(tLog) : IsError(tLog[i].answer)}

\* C22: a script one of whose remote requests failed does not finish with
\* exit status 0.
C22_FailureExitsNonzero ==
    (~IsAbsent(tExit) /\ RejectedRequests # {}) => tExit.code # 0

\* The steps of the script that got a response.
Succeeded == {tLog[i].step : i \in (1..Len(tLog)) \ RejectedRequests}

\* The steps of the script whose request was issued.
IssuedSteps == {tLog[i].step : i \in 1..Len(tLog)} \cup {tPending}

\* C28: when the function has returned and the request creating the topic
\* (the bucket) had succeeded, the request deleting it was issued.
C28_CreatedIsDeleted ==
    (tCmd # "none" /\ tPending = "none") =>
        /\ "createTopic" \in Succeeded => "deleteTopic" \in IssuedSteps
        /\ "createBucket" \in Succeeded => "deleteBucket" \in IssuedSteps

\* The runs of setupIotTopic so far have completed, and there is one.
PolicyUpdated == pPc = "idle" /\ pRuns >= 1

\* The members a binding lists, none when it has no list.
MemberList(binding) ==
    IF "members" \in DOMAIN binding THEN binding.members ELSE <<>>

\* How often a member is listed in a binding.
Listed(binding, member) ==
    Cardinality({i \in 1..Len(MemberList(binding)) :
                    MemberList(binding)[i] = member})

\* C26: after setupIotTopic the policy of the topic has a publisher binding
\* that lists the service account exactly once, and a further run on that
\* policy writes the policy it read.
C26_PublisherOnceAndIdempotent ==
    PolicyUpdated =>
        /\ \E i \in 1..Len(pPolicy.bindings) :
              /\ pPolicy.bindings[i].role = publisherRole
              /\ Listed(pPolicy.bindings[i], serviceAccount) = 1
        /\ pRuns >= 2 => pWritten = pRead

\* A second run has completed on a topic of two bindings whose publisher
\* binding lists the service account after another member.
C26_Witness ==
    /\ PolicyUpdated
    /\ pRuns = 2
    /\ Len(pPolicy.bindings) = 2
    /\ pPolicy.bindings[1] =
          [role |-> publisherRole, members |-> <<"user:a", serviceAccount>>]

\* The (role, member) pairs of a policy.
Pairs(policy) ==
    IF IsAbsent(policy) \/ "bindings" \notin DOMAIN policy THEN {}
    ELSE UNION {{<<policy.bindings[i].role, MemberList(policy.bindings[i])[j]>> :
                    j \in 1..Len(MemberList(policy.bindings[i]))} :
                i \in 1..Len(policy.bindings)}

\* C27: every (role, member) pair of the policy setupIotTopic read is in
\* the policy it writes.
C27_PolicyPreserved ==
    PolicyUpdated => Pairs(pRead) \subseteq Pairs(pWritten)

\* A run has completed on a policy that held a pair under the publisher
\* role and lacked the service account.
C27_Witness ==
    /\ PolicyUpdated
    /\ <<publisherRole, "user:a">> \in Pairs(pRead)
    /\ <<publisherRole, serviceAccount>> \notin Pairs(pRead)
    /\ <<publisherRole, serviceAccount>> \in Pairs(pWritten)

====
